---------------------------- MODULE Spec2Model ----------------------------
(***************************************************************************)
(* A model of astroid/helpers.py: safe_infer, has_known_bases,             *)
(* _type_check / is_subtype / is_supertype, object_type and                *)
(* class_instance_as_index.                                                *)
(*                                                                         *)
(* A node's inference (node.infer, node.igetattr, infer_call_result) is a  *)
(* lazy sequence of candidates.  It is modelled as a record                *)
(*     [vals |-> <<v1, ..., vn>>, end |-> "stop" | "error" | "inf"]        *)
(* that yields vals in order and then terminates cleanly (StopIteration),  *)
(* raises InferenceError, or keeps yielding vals cyclically for ever.      *)
(***************************************************************************)
EXTENDS Integers, Sequences, FiniteSets, TLC

\* ------------------------------------------------------------------ bounds
MaxEdges == 2        \* base nodes declared in the whole tree
MaxLen == 2          \* candidates of one lazy sequence
RecursionLimit == 4  \* nested has_known_bases frames the interpreter allows
MaxWrites == 2       \* assignments of one class's flag the model follows

\* the classes of the tree
Classes == {1, 2}

\* ------------------------------------------------------------------ values
ClassVal(c) == [kind |-> "ClassDef", cls |-> c]
InstanceVal(c) == [kind |-> "Instance", cls |-> c]
LambdaVal(b) == [kind |-> "Lambda", builtin |-> b]
BoundMethodVal == [kind |-> "BoundMethod"]
UnboundMethodVal == [kind |-> "UnboundMethod"]
ModuleVal == [kind |-> "Module"]
ConstVal(t, n) == [kind |-> "Const", vtype |-> t, value |-> n]

\* what a call returns or raises
RNone == [tag |-> "None"]
RYes == [tag |-> "YES"]
RVal(v) == [tag |-> "value", val |-> v]
RBool(b) == [tag |-> "bool", b |-> b]
RRaise(e) == [tag |-> "raise", exc |-> e]
RDiverges == [tag |-> "diverges"]

\* ------------------------------------------------------------- lazy streams
Stream(vs, e) == [vals |-> vs, end |-> e]

SeqsUpTo(S, n) == UNION {[1..k -> S] : k \in 0..n}

\* the streams over the values S: an infinite one yields something
StreamsOver(S, n) ==
    {Stream(vs, e) : vs \in SeqsUpTo(S, n), e \in {"stop", "error"}}
    \cup {Stream(vs, "inf") : vs \in SeqsUpTo(S, n) \ {<< >>}}

\* next(inferit), the i-th time it is called on a fresh generator
Draw(node, i) ==
    IF i <= Len(node.vals) THEN RVal(node.vals[i])
    ELSE IF node.end = "stop" THEN RRaise("StopIteration")
    ELSE IF node.end = "error" THEN RRaise("InferenceError")
    ELSE RVal(node.vals[((i - 1) % Len(node.vals)) + 1])

\* --------------------------------------------------------------- safe_infer
\* safe_infer without the second try block: the first candidate is the answer
SafeInferFirstOnly(node) ==
    LET first == Draw(node, 1)
    IN  IF first = RRaise("InferenceError") THEN [res |-> RNone, draws |-> 1]
        ELSE [res |-> first, draws |-> 1]

\* first try block: only InferenceError is caught, so the StopIteration of an
\* empty generator leaves safe_infer; second try block: a second candidate or
\* an InferenceError is ambiguity, StopIteration returns the value.
safe_infer(node) ==
    LET first == Draw(node, 1)
    IN  IF first = RRaise("InferenceError") THEN [res |-> RNone, draws |-> 1]
        ELSE IF first.tag = "raise" THEN [res |-> first, draws |-> 1]
        ELSE LET second == Draw(node, 2)
             IN  IF second = RRaise("StopIteration")
                 THEN [res |-> first, draws |-> 2]
                 ELSE [res |-> RNone, draws |-> 2]

\* --------------------------------------------------------------- the state
VARIABLES
    bases,            \* klass.bases: the base nodes of each class, in order
    newstyle,         \* klass.newstyle
    metaclass,        \* klass.metaclass(): a class, or 0 for None
    PY2,              \* six.PY2, the interpreter the build runs on
    all_bases_known,  \* klass._all_bases_known, defined where it was set
    writes,           \* how often klass._all_bases_known was assigned
    nbuilt,           \* proxy classes built so far by raw_building.build_class
    last              \* the last call of a public function and its outcome

vars == <<bases, newstyle, metaclass, PY2, all_bases_known, writes, nbuilt, last>>

\* ---------------------------------------------------------- has_known_bases
\* has_known_bases without the lookup of the flag
CacheLookupNever(klass, cache) == [hit |-> FALSE, value |-> FALSE]

\* try: return klass._all_bases_known / except AttributeError: pass
CacheLookup(klass, cache) ==
    IF klass \in DOMAIN cache
    THEN [hit |-> TRUE, value |-> cache[klass]]
    ELSE [hit |-> FALSE, value |-> FALSE]

\* klass._all_bases_known = b, on the memo s = [cache, writes, draws]
SetKnown(s, klass, b) ==
    [s EXCEPT !.cache = [c \in (DOMAIN s.cache) \cup {klass} |->
                            IF c = klass THEN b ELSE s.cache[c]],
              !.writes = [s.writes EXCEPT ![klass] = @ + 1]]

\* the test of a base's safe_infer result that makes the loop give up before
\* it recurses: not a ClassDef, or the class itself
NotAClassOrSelf(result, klass) ==
    \/ ~(result.tag = "value" /\ result.val.kind = "ClassDef")
    \/ result.val.cls = klass

RECURSIVE has_known_bases(_, _, _), BasesLoop(_, _, _, _)
RECURSIVE AfterInfer(_, _, _, _, _), AfterBase(_, _, _, _)

\* the rest of the loop body once has_known_bases(result) is back
AfterBase(klass, i, depth, sub) ==
    IF sub.res.tag = "raise" THEN sub
    ELSE IF ~sub.res.b
    THEN [res |-> RBool(FALSE), s |-> SetKnown(sub.s, klass, FALSE)]
    ELSE BasesLoop(klass, i + 1, sub.s, depth)

\* the loop body once result = safe_infer(base) is back, s1 being s with
\* the draws of that call
AfterInfer(klass, i, s1, depth, result) ==
    IF result.tag = "raise" THEN [res |-> result, s |-> s1]
    ELSE IF NotAClassOrSelf(result, klass)
    THEN [res |-> RBool(FALSE), s |-> SetKnown(s1, klass, FALSE)]
    ELSE AfterBase(klass, i, depth,
                   has_known_bases(result.val.cls, s1, depth + 1))

AddDraws(s, inferred) == [s EXCEPT !.draws = @ + inferred.draws]

InferBase(klass, i, s, depth, inferred) ==
    AfterInfer(klass, i, AddDraws(s, inferred), depth, inferred.res)

\* the loop over klass.bases from the i-th base on; depth counts the
\* has_known_bases frames on the stack
BasesLoop(klass, i, s, depth) ==
    IF i > Len(bases[klass])
    THEN [res |-> RBool(TRUE), s |-> SetKnown(s, klass, TRUE)]
    ELSE InferBase(klass, i, s, depth, safe_infer(bases[klass][i]))

Lookup(klass, s, depth, look) ==
    IF look.hit THEN [res |-> RBool(look.value), s |-> s]
    ELSE BasesLoop(klass, 1, s, depth)

has_known_bases(klass, s, depth) ==
    IF depth > RecursionLimit THEN [res |-> RRaise("RecursionError"), s |-> s]
    ELSE Lookup(klass, s, depth, CacheLookup(klass, s.cache))

Memo == [cache |-> all_bases_known, writes |-> writes, draws |-> 0]

\* -------------------------------------------------------------- klass.mro()
\* The classes whose whole ancestry is declared by base nodes that infer to
\* exactly one class and that reach no class twice along one path.
Unique(node) ==
    /\ node.end = "stop"
    /\ Len(node.vals) = 1
    /\ node.vals[1].kind = "ClassDef"

BaseClass(node) == node.vals[1].cls

RECURSIVE Grounded(_)
Grounded(n) ==
    IF n = 0 THEN {}
    ELSE LET G == Grounded(n - 1)
         IN  {c \in Classes : \A i \in 1..Len(bases[c]) :
                 Unique(bases[c][i]) /\ BaseClass(bases[c][i]) \in G}

Resolvable(c) == c \in Grounded(Cardinality(Classes))

MroError == [ok |-> FALSE, order |-> << >>]

RECURSIVE Reverse(_)
Reverse(sq) == IF sq = << >> THEN << >> ELSE Append(Reverse(Tail(sq)), Head(sq))

InTail(x, sq) == \E j \in 2..Len(sq) : sq[j] = x

DropHead(x, sq) == IF sq # << >> /\ Head(sq) = x THEN Tail(sq) ELSE sq

\* the merge step of the linearization: take the first head that is in no
\* tail; there is no order when every head is in some tail
RECURSIVE Merge(_)
Prepend(h, rest) ==
    IF rest.ok THEN [ok |-> TRUE, order |-> <<h>> \o rest.order] ELSE MroError

DropAll(h, left) == [j \in 1..Len(left) |-> DropHead(h, left[j])]

TakeHead(h, left) == Prepend(h, Merge(DropAll(h, left)))

GoodHeads(left) ==
    {i \in 1..Len(left) : \A j \in 1..Len(left) : ~InTail(Head(left[i]), left[j])}

MergeLeft(left, good) ==
    IF left = << >> THEN [ok |-> TRUE, order |-> << >>]
    ELSE IF good = {} THEN MroError
    ELSE TakeHead(Head(left[CHOOSE k \in good : \A m \in good : k <= m]), left)

NonEmpty(sq) == sq # << >>

MergeNonEmpty(left) == MergeLeft(left, GoodHeads(left))

Merge(seqs) == MergeNonEmpty(SelectSeq(seqs, NonEmpty))

\* the linearization of a resolvable class, the class first
RECURSIVE Linearize(_)
BaseClasses(c) == [i \in 1..Len(bases[c]) |-> BaseClass(bases[c][i])]

LinearizeWith(c, bs, ls) ==
    IF \E i \in 1..Len(bs) : ~ls[i].ok THEN MroError
    ELSE Prepend(c, Merge([i \in 1..Len(bs) |-> ls[i].order] \o <<bs>>))

LinearizeBases(c, bs) ==
    LinearizeWith(c, bs, [i \in 1..Len(bs) |-> Linearize(bs[i])])

Linearize(c) == LinearizeBases(c, BaseClasses(c))

\* the resolution order: the ancestors of the class in linearized order,
\* ending in the class itself; what it does on a class whose ancestry is not
\* resolvable is not specified, and is left open
Oriented(l) == IF l.ok THEN [ok |-> TRUE, order |-> Reverse(l.order)] ELSE MroError

MroOutcomes(c) ==
    IF Resolvable(c) THEN {Oriented(Linearize(c))}
    ELSE {MroError, [ok |-> TRUE, order |-> <<c>>]}

\* -------------------------------------------------------------- _type_check
\* all(map(has_known_bases, (type1, type2))): Python 2's map calls
\* has_known_bases on both operands before all() looks at any result; Python
\* 3's map is lazy, so all() stops at the first False, and takes a
\* StopIteration that leaves has_known_bases for the end of the iteration.
AllOf(r1, r2) ==
    IF PY2
    THEN IF r1.res.tag = "raise" THEN r1
         ELSE IF r2.res.tag = "raise" THEN r2
         ELSE [res |-> RBool(r1.res.b /\ r2.res.b), s |-> r2.s]
    ELSE IF r1.res = RRaise("StopIteration")
         THEN [res |-> RBool(TRUE), s |-> r1.s]
         ELSE IF r1.res.tag = "raise" THEN r1
         ELSE IF ~r1.res.b THEN r1
         ELSE IF r2.res = RRaise("StopIteration")
         THEN [res |-> RBool(TRUE), s |-> r2.s]
         ELSE r2

\* r1 is has_known_bases(type1), after which has_known_bases(type2) runs
ThenSecond(r1, type2) == AllOf(r1, has_known_bases(type2, r1.s, 1))

AllKnown(type1, type2, s) == ThenSecond(has_known_bases(type1, s, 1), type2)

\* type1 in type2.mro(), the last entry included
InMroWhole(type1, order) == \E i \in 1..Len(order) : order[i] = type1

\* type1 in type2.mro()[:-1]
InMro(type1, order) == \E i \in 1..(Len(order) - 1) : order[i] = type1

\* the decision once all(...) has returned; mro is what type2.mro() does
Decide(known, type1, type2, mro) ==
    IF ~known THEN RYes
    ELSE IF ~(newstyle[type1] /\ newstyle[type2]) THEN RBool(FALSE)
    ELSE IF ~mro.ok THEN RYes
    ELSE RBool(InMro(type1, mro.order))

\* mro is what type2.mro() does when it is called
Decided(k, type1, type2, mro) ==
    IF k.res.tag = "raise" THEN k
    ELSE [res |-> Decide(k.res.b, type1, type2, mro), s |-> k.s]

type_check(type1, type2, s, mro) ==
    Decided(AllKnown(type1, type2, s), type1, type2, mro)

\* is_subtype without the swap of the operands
IsSubtypeUnswapped(type1, type2, s, mro) == type_check(type1, type2, s, mro)

\* mro is what type1.mro() does: _type_check is called with the operands swapped
is_subtype(type1, type2, s, mro) == type_check(type2, type1, s, mro)

is_supertype(type1, type2, s, mro) == type_check(type1, type2, s, mro)

\* ------------------------------------------------------------ the class tree
\* what a base node of the tree can infer to: exactly one class, nothing
\* (cleanly or by InferenceError), two candidates, or one value that is no class
DefectNodes ==
    { Stream(<< >>, "stop"),
      Stream(<< >>, "error"),
      Stream(<<ClassVal(1), ClassVal(1)>>, "stop"),
      Stream(<<InstanceVal(1)>>, "stop") }

BaseNodes == {Stream(<<ClassVal(c)>>, "stop") : c \in Classes} \cup DefectNodes

\* the declarations <<class, base node>> of a tree, class by class; at most
\* one of them is a defect node
IsTree(e) ==
    /\ \A i \in 1..(Len(e) - 1) : e[i][1] <= e[i + 1][1]
    /\ Cardinality({i \in 1..Len(e) : e[i][2] \in DefectNodes}) <= 1

BasesOf(e) ==
    [c \in Classes |->
        LET Mine(d) == d[1] = c
            mine == SelectSeq(e, Mine)
        IN  [i \in 1..Len(mine) |-> mine[i][2]]]

NoCall == [op |-> "none"]

Init ==
    /\ \E k \in 0..MaxEdges : \E e \in [1..k -> Classes \X BaseNodes] :
          IsTree(e) /\ bases = BasesOf(e)
    /\ newstyle \in [Classes -> BOOLEAN]
    /\ metaclass = [c \in Classes |-> 0]
    /\ PY2 \in BOOLEAN
    /\ all_bases_known = << >>
    /\ writes = [c \in Classes |-> 0]
    /\ nbuilt = 0
    /\ last = NoCall

Tree == <<bases, newstyle, metaclass, PY2>>

CanWrite == \A c \in Classes : writes[c] < MaxWrites

\* the call op(a, b) is back with r = [res, s]: the flags it set stay set
Returns(op, a, b, r, mro) ==
    /\ all_bases_known' = r.s.cache
    /\ writes' = r.s.writes
    /\ last' = [op |-> op, a |-> a, b |-> b, res |-> r.res, draws |-> r.s.draws,
                hit |-> {a, b} \subseteq DOMAIN all_bases_known, mro |-> mro]

\* a call of has_known_bases(klass)
HasKnownBases(klass) ==
    /\ CanWrite
    /\ Returns("has_known_bases", klass, klass, has_known_bases(klass, Memo, 1),
               MroError)
    /\ UNCHANGED <<Tree, nbuilt>>

\* a call of is_subtype(type1, type2)
IsSubtype(type1, type2) ==
    /\ CanWrite
    /\ \E mro \in MroOutcomes(type1) :
         Returns("is_subtype", type1, type2,
                 is_subtype(type1, type2, Memo, mro), mro)
    /\ UNCHANGED <<Tree, nbuilt>>

\* a call of is_supertype(type1, type2)
IsSupertype(type1, type2) ==
    /\ CanWrite
    /\ \E mro \in MroOutcomes(type2) :
         Returns("is_supertype", type1, type2,
                 is_supertype(type1, type2, Memo, mro), mro)
    /\ UNCHANGED <<Tree, nbuilt>>

\* -------------------------------------------------------------- object_type
ClassDesc(c) == [d |-> "class", cls |-> c, name |-> "", id |-> 0]
BuiltinDesc(n) == [d |-> "builtin", cls |-> 0, name |-> n, id |-> 0]
\* _build_proxy_class: raw_building.build_class makes a new class object
ProxyDesc(n, k) == [d |-> "proxy", cls |-> 0, name |-> n, id |-> k]

\* isinstance(inferred, (treeabc.Lambda, runtimeabc.UnboundMethod)): a bound
\* method is an unbound method too, which is how _function_type, called from
\* here alone, gets to its BoundMethod branch
IsFunctionLike(v) == v.kind \in {"Lambda", "BoundMethod", "UnboundMethod"}

function_type_name(v) ==
    IF v.kind = "Lambda"
    THEN (IF v.builtin THEN "builtin_function_or_method" ELSE "function")
    ELSE IF v.kind = "BoundMethod"
    THEN (IF PY2 THEN "instancemethod" ELSE "method")
    ELSE (IF PY2 THEN "instancemethod" ELSE "function")

BuildsProxy(v) == IsFunctionLike(v) \/ v.kind = "Module"

\* _object_type with one proxy class per kind instead of one per candidate
ClassifyShared(v, n) ==
    IF v.kind = "ClassDef"
    THEN (IF metaclass[v.cls] # 0 THEN ClassDesc(metaclass[v.cls])
          ELSE BuiltinDesc("type"))
    ELSE IF IsFunctionLike(v) THEN ProxyDesc(function_type_name(v), 0)
    ELSE IF v.kind = "Module" THEN ProxyDesc("module", 0)
    ELSE IF v.kind = "Const" THEN BuiltinDesc(v.vtype)
    ELSE ClassDesc(v.cls)

\* what _object_type yields for one inferred value, n proxies built before
Classify(v, n) ==
    IF v.kind = "ClassDef"
    THEN (IF metaclass[v.cls] # 0 THEN ClassDesc(metaclass[v.cls])
          ELSE BuiltinDesc("type"))
    ELSE IF IsFunctionLike(v) THEN ProxyDesc(function_type_name(v), n + 1)
    ELSE IF v.kind = "Module" THEN ProxyDesc("module", n + 1)
    ELSE IF v.kind = "Const" THEN BuiltinDesc(v.vtype)
    ELSE ClassDesc(v.cls)

\* set(_object_type(node)) over the candidates from the i-th on
RECURSIVE Collect(_, _, _, _)
Collect(vals, i, types, n) ==
    IF i > Len(vals) THEN [types |-> types, n |-> n]
    ELSE Collect(vals, i + 1, types \cup {Classify(vals[i], n)},
                 IF BuildsProxy(vals[i]) THEN n + 1 ELSE n)

\* object_type(node) with n proxies built before: the result and the proxies
\* built after; set() of a sequence without end does not return
object_type(node, n) ==
    LET got == Collect(node.vals, 1, {}, n)
    IN  IF node.end = "inf" THEN [res |-> RDiverges, n |-> n]
        ELSE IF node.end = "error" THEN [res |-> RYes, n |-> got.n]
        ELSE IF Cardinality(got.types) > 1 \/ got.types = {}
        THEN [res |-> RYes, n |-> got.n]
        ELSE [res |-> RVal(CHOOSE t \in got.types : TRUE), n |-> got.n]

\* -------------------------------------------------- class_instance_as_index
BoundMethodCall(results) == [kind |-> "BoundMethod", call |-> results]

\* the test of a call result without isinstance(result.value, int)
IsIntConstAny(result) == result.kind = "Const"

\* isinstance(result, treeabc.Const) and isinstance(result.value, int)
IsIntConst(result) == result.kind = "Const" /\ result.vtype = "int"

\* the inner loop over inferred.infer_call_result(node): "found", or how the
\* loop ends; seen counts the call results drawn
RECURSIVE ScanResults(_, _)
ScanResults(results, j) ==
    IF j > Len(results.vals)
    THEN [how |-> results.end, res |-> RNone, seen |-> j - 1]
    ELSE IF IsIntConst(results.vals[j])
    THEN [how |-> "found", res |-> RVal(results.vals[j]), seen |-> j]
    ELSE ScanResults(results, j + 1)

\* if not isinstance(inferred, runtimeabc.BoundMethod): continue
Skips(v) == v.kind # "BoundMethod"

\* the outer loop over node.igetattr('__index__') from the i-th candidate on
RECURSIVE ScanAttr(_, _, _)
ScanAttr(attr, i, seen) ==
    IF i > Len(attr.vals)
    THEN [res |-> IF attr.end = "inf" THEN RDiverges ELSE RNone,
          cands |-> i - 1, seen |-> seen]
    ELSE IF Skips(attr.vals[i]) THEN ScanAttr(attr, i + 1, seen)
    ELSE LET r == ScanResults(attr.vals[i].call, 1)
         IN  IF r.how = "found"
             THEN [res |-> r.res, cands |-> i, seen |-> seen + r.seen]
             ELSE IF r.how = "stop" THEN ScanAttr(attr, i + 1, seen + r.seen)
             ELSE [res |-> IF r.how = "inf" THEN RDiverges ELSE RNone,
                   cands |-> i, seen |-> seen + r.seen]

class_instance_as_index(attr) == ScanAttr(attr, 1, 0)

\* ------------------------------------------- the functions on a single node
InferValues ==
    {ClassVal(c) : c \in Classes}
    \cup {InstanceVal(1), ConstVal("int", 1), ModuleVal}

TypeValues ==
    {ClassVal(c) : c \in Classes}
    \cup {InstanceVal(1), ConstVal("int", 1), ModuleVal, BoundMethodVal,
          UnboundMethodVal, LambdaVal(TRUE), LambdaVal(FALSE)}

ResultValues ==
    {ConstVal("int", 1), ConstVal("int", 2), ConstVal("str", 0), InstanceVal(1)}

AttrValues ==
    {UnboundMethodVal}
    \cup {BoundMethodCall(r) : r \in StreamsOver(ResultValues, MaxLen)}

\* how a lazy sequence can end after k candidates
Ends(k) == IF k = 0 THEN {"stop", "error"} ELSE {"stop", "error", "inf"}

\* an attribute lookup yields up to two candidates
AttrLens == {0, 1, 2}

Call(fn, node) == [op |-> "call", fn |-> fn, node |-> node]

NoTree ==
    /\ bases = [c \in Classes |-> << >>]
    /\ newstyle = [c \in Classes |-> TRUE]
    /\ all_bases_known = << >>
    /\ writes = [c \in Classes |-> 0]
    /\ PY2 \in BOOLEAN

InitInfer ==
    /\ NoTree
    /\ metaclass = [c \in Classes |-> 0]
    /\ nbuilt = 0
    /\ \E k \in 0..MaxLen : \E vs \in [1..k -> InferValues] : \E e \in Ends(k) :
          last = Call("safe_infer", Stream(vs, e))

InitType ==
    /\ NoTree
    /\ metaclass \in [Classes -> {0} \cup Classes]
    /\ nbuilt \in {0, 1}
    /\ \E k \in 0..MaxLen : \E vs \in [1..k -> TypeValues] : \E e \in Ends(k) :
          last = Call("object_type", Stream(vs, e))

InitIndex ==
    /\ NoTree
    /\ metaclass = [c \in Classes |-> 0]
    /\ nbuilt = 0
    /\ \E k \in AttrLens : \E vs \in [1..k -> AttrValues] : \E e \in Ends(k) :
          last = Call("class_instance_as_index", Stream(vs, e))

\* the call of safe_infer(node)
SafeInfer ==
    /\ last.op = "call" /\ last.fn = "safe_infer"
    /\ LET r == safe_infer(last.node)
       IN  last' = [op |-> "safe_infer", node |-> last.node, res |-> r.res,
                    draws |-> r.draws]
    /\ UNCHANGED <<Tree, all_bases_known, writes, nbuilt>>

\* the call of object_type(node)
ObjectType ==
    /\ last.op = "call" /\ last.fn = "object_type"
    /\ LET r == object_type(last.node, nbuilt)
       IN  /\ last' = [op |-> "object_type", node |-> last.node, res |-> r.res,
                       before |-> nbuilt]
           /\ nbuilt' = r.n
    /\ UNCHANGED <<Tree, all_bases_known, writes>>

\* the call of class_instance_as_index(node), attr being node's '__index__'
ClassInstanceAsIndex ==
    /\ last.op = "call" /\ last.fn = "class_instance_as_index"
    /\ LET r == class_instance_as_index(last.node)
       IN  last' = [op |-> "class_instance_as_index", node |-> last.node,
                    res |-> r.res, cands |-> r.cands, seen |-> r.seen]
    /\ UNCHANGED <<Tree, all_bases_known, writes, nbuilt>>

Next ==
    \/ \E klass \in Classes : HasKnownBases(klass)
    \/ \E type1, type2 \in Classes : IsSubtype(type1, type2)
    \/ \E type1, type2 \in Classes : IsSupertype(type1, type2)

Spec == Init /\ [][Next]_vars

SpecInfer == InitInfer /\ [][SafeInfer]_vars

SpecType == InitType /\ [][ObjectType]_vars

SpecIndex == InitIndex /\ [][ClassInstanceAsIndex]_vars

\* ==================================================================== claims
TypeOps == {"is_subtype", "is_supertype"}

\* the classes a class inherits from, through base nodes that infer to
\* exactly one class
RECURSIVE AncestorsWithin(_, _)
AncestorsWithin(c, n) ==
    IF n = 0 THEN {}
    ELSE LET ps == {BaseClass(bases[c][i]) :
                       i \in {k \in 1..Len(bases[c]) : Unique(bases[c][k])}}
         IN  ps \cup UNION {AncestorsWithin(p, n - 1) : p \in ps}

ProperAncestors(c) == AncestorsWithin(c, Cardinality(Classes))

\* modern-style classes with fully known bases and valid resolution orders
Orderly(a, b) ==
    /\ Resolvable(a) /\ Resolvable(b)
    /\ newstyle[a] /\ newstyle[b]
    /\ Linearize(a).ok /\ Linearize(b).ok

\* derived declares base as its only base, and base declares none
OnlyBase(derived, base) ==
    /\ derived # base
    /\ bases[derived] = <<Stream(<<ClassVal(base)>>, "stop")>>
    /\ bases[base] = << >>

\* C1 as the specification states it: for orderly classes A and B,
\* is_subtype(A, B) is true iff A is in B's resolution order without B's own
\* entry; is_subtype(Base, Derived) is true and is_subtype(Derived, Base) false.
C1_SubtypeOfDerived ==
    (last.op = "is_subtype" /\ Orderly(last.a, last.b)) =>
        /\ last.res = RBool(last.a \in ProperAncestors(last.b))
        /\ OnlyBase(last.b, last.a) => last.res = RBool(TRUE)
        /\ OnlyBase(last.a, last.b) => last.res = RBool(FALSE)

\* C1 amended: for orderly classes A and B, is_subtype(A, B) is true iff B is
\* in A's resolution order without its last entry, that is iff B is a proper
\* ancestor of A; is_subtype(Derived, Base) is true and
\* is_subtype(Base, Derived) is false.
C1_SubtypeOfAncestor ==
    (last.op = "is_subtype" /\ Orderly(last.a, last.b)) =>
        /\ last.res = RBool(last.b \in ProperAncestors(last.a))
        /\ OnlyBase(last.a, last.b) => last.res = RBool(TRUE)
        /\ OnlyBase(last.b, last.a) => last.res = RBool(FALSE)

C1_Witness ==
    /\ last.op = "is_subtype"
    /\ Orderly(last.a, last.b)
    /\ OnlyBase(last.a, last.b)
    /\ last.res = RBool(TRUE)

\* C2: safe_infer on a node that yields at least one candidate returns the
\* first candidate iff the sequence yields exactly one and then ends cleanly,
\* returns None otherwise, and draws at most two candidates.
C2_OneCandidateOrNone ==
    (last.op = "safe_infer" /\ Len(last.node.vals) >= 1) =>
        LET single == Len(last.node.vals) = 1 /\ last.node.end = "stop"
        IN  /\ single <=> last.res = RVal(last.node.vals[1])
            /\ ~single => last.res = RNone
            /\ last.draws <= 2

C2_Witness ==
    /\ last.op = "safe_infer"
    /\ Len(last.node.vals) = 1 /\ last.node.end = "stop"
    /\ last.res = RVal(last.node.vals[1])
    /\ last.draws = 2

\* C3: safe_infer returns None and raises nothing when the node yields no
\* candidate, whether inference fails or the sequence ends cleanly.
C3_NoCandidateIsNone ==
    (last.op = "safe_infer" /\ Len(last.node.vals) = 0) => last.res = RNone

\* what has_known_bases returns for a class in this state
KnownNow(c) == has_known_bases(c, Memo, 1).res

\* C4: has_known_bases(C) returns a boolean, true iff every base of C infers
\* to exactly one class that is not C and whose bases are known, and the flag
\* stored on C is the value returned.
C4_KnownIffEveryBaseKnown ==
    last.op = "has_known_bases" =>
        LET k == last.a
            every == \A i \in 1..Len(bases[k]) :
                        /\ Unique(bases[k][i])
                        /\ BaseClass(bases[k][i]) # k
                        /\ KnownNow(BaseClass(bases[k][i])) = RBool(TRUE)
        IN  /\ last.res = RBool(every)
            /\ k \in DOMAIN all_bases_known
            /\ all_bases_known[k] = every

\* C5: a class's flag is assigned at most once and never changes once set,
\* and a call of has_known_bases on a class whose flag is set returns the
\* stored value without drawing a candidate of any base.
C5_MemoizedOnce ==
    [][ /\ \A c \in DOMAIN all_bases_known :
              c \in DOMAIN all_bases_known'
              /\ all_bases_known'[c] = all_bases_known[c]
        /\ \A c \in Classes : writes'[c] <= 1
        /\ (last'.op = "has_known_bases" /\ last'.a \in DOMAIN all_bases_known)
              => /\ last'.draws = 0
                 /\ last'.res = RBool(all_bases_known[last'.a]) ]_vars

C5_Witness ==
    /\ last.op = "has_known_bases"
    /\ last.hit
    /\ Len(bases[last.a]) > 0
    /\ last.draws = 0
    /\ writes[last.a] = 1

\* every base node of the tree infers to exactly one class
AllBasesUnique == \A c \in Classes : \A i \in 1..Len(bases[c]) : Unique(bases[c][i])

\* C6: on a tree whose base nodes all infer to exactly one class,
\* has_known_bases, is_subtype and is_supertype return, cycles included.
C6_AlwaysReturns ==
    (last.op \in TypeOps \cup {"has_known_bases"} /\ AllBasesUnique) =>
        last.res.tag # "raise"

\* C7: _type_check(type1, type2) is Unknown when has_known_bases is false for
\* an operand; otherwise false when an operand is legacy-style; otherwise
\* Unknown when the resolution order fails; otherwise the membership test.
C7_FixedOrder ==
    last.op \in TypeOps =>
        LET type1 == IF last.op = "is_subtype" THEN last.b ELSE last.a
            type2 == IF last.op = "is_subtype" THEN last.a ELSE last.b
            k1 == KnownNow(type1)
            k2 == KnownNow(type2)
        IN  /\ (k1 = RBool(FALSE) \/ k2 = RBool(FALSE)) => last.res = RYes
            /\ (k1 = RBool(TRUE) /\ k2 = RBool(TRUE)) =>
                 IF ~(newstyle[type1] /\ newstyle[type2])
                 THEN last.res = RBool(FALSE)
                 ELSE IF ~last.mro.ok THEN last.res = RYes
                 ELSE last.res = RBool(\E i \in 1..(Len(last.mro.order) - 1) :
                                          last.mro.order[i] = type1)

\* C8: is_subtype(A, A) is false for a modern-style class A with fully known
\* bases and a valid resolution order.
C8_NotSubtypeOfItself ==
    (/\ last.op = "is_subtype"
     /\ last.a = last.b
     /\ Resolvable(last.a)
     /\ newstyle[last.a]
     /\ last.mro.ok) => last.res = RBool(FALSE)

C8_Witness ==
    /\ last.op = "is_subtype"
    /\ last.a = last.b
    /\ Resolvable(last.a)
    /\ newstyle[last.a]
    /\ last.mro.ok
    /\ Len(bases[last.a]) > 0
    /\ last.res = RBool(FALSE)

\* the candidates that are classified to a proxy class built for them
BuiltFor(v) == v.kind \in {"Lambda", "BoundMethod", "UnboundMethod", "Module"}

\* the class that stands for the type of any other candidate
TypeOfValue(v) ==
    IF v.kind = "ClassDef"
    THEN (IF metaclass[v.cls] = 0 THEN BuiltinDesc("type")
          ELSE ClassDesc(metaclass[v.cls]))
    ELSE IF v.kind = "Const" THEN BuiltinDesc(v.vtype)
    ELSE ClassDesc(v.cls)

\* C9: on a node whose candidates end, object_type returns a descriptor iff
\* the candidates' descriptors are one and the same object: the inference
\* ended cleanly, and there is one candidate, or none of several has a proxy
\* built for it and all have the same type.  It then returns that descriptor,
\* a proxy built by this call for a function, method or module; otherwise it
\* returns Unknown.
C9_OneTypeOrUnknown ==
    (last.op = "object_type" /\ last.node.end # "inf") =>
        LET vals == last.node.vals
            one == /\ last.node.end = "stop"
                   /\ Len(vals) >= 1
                   /\ \/ Len(vals) = 1
                      \/ \A i \in 1..Len(vals) :
                            /\ ~BuiltFor(vals[i])
                            /\ TypeOfValue(vals[i]) = TypeOfValue(vals[1])
        IN  /\ last.res.tag = "value" <=> one
            /\ ~one => last.res = RYes
            /\ one => IF BuiltFor(vals[1])
                      THEN /\ last.res.val.d = "proxy"
                           /\ last.res.val.id > last.before
                      ELSE last.res.val = TypeOfValue(vals[1])

C9_Witness ==
    /\ last.op = "object_type"
    /\ Len(last.node.vals) = 2
    /\ last.node.vals[1] # last.node.vals[2]
    /\ last.res.tag = "value"

\* an integer literal constant
IntegerLiteral(v) == v.kind = "Const" /\ v.vtype = "int"

\* the j-th call result of the i-th candidate is an integer literal
Hit(attr, i, j) ==
    /\ i \in 1..Len(attr.vals)
    /\ attr.vals[i].kind = "BoundMethod"
    /\ j \in 1..Len(attr.vals[i].call.vals)
    /\ IntegerLiteral(attr.vals[i].call.vals[j])

\* the scan cannot go past the i-th candidate: a bound method without an
\* integer literal among its call results, which do not end cleanly
Blocks(attr, i) ==
    /\ attr.vals[i].kind = "BoundMethod"
    /\ attr.vals[i].call.end # "stop"
    /\ \A j \in 1..Len(attr.vals[i].call.vals) : ~Hit(attr, i, j)

\* the first integer literal in scan order, if the scan gets to it
FirstHits(attr) ==
    {h \in UNION {{<<i, j>> : j \in 1..MaxLen} : i \in 1..Len(attr.vals)} :
        /\ Hit(attr, h[1], h[2])
        /\ \A j \in 1..(h[2] - 1) : ~Hit(attr, h[1], j)
        /\ \A i \in 1..(h[1] - 1) :
              ~Blocks(attr, i) /\ \A j \in 1..MaxLen : ~Hit(attr, i, j)}

\* the call results of the bound methods among the first n candidates
RECURSIVE ResultsBefore(_, _)
ResultsBefore(attr, n) ==
    IF n = 0 THEN 0
    ELSE ResultsBefore(attr, n - 1)
         + (IF attr.vals[n].kind = "BoundMethod"
            THEN Len(attr.vals[n].call.vals) ELSE 0)

\* no lazy sequence of the lookup goes on for ever
AllEnd(attr) ==
    /\ attr.end # "inf"
    /\ \A i \in 1..Len(attr.vals) :
          attr.vals[i].kind = "BoundMethod" => attr.vals[i].call.end # "inf"

\* C10: class_instance_as_index never raises; it returns the first integer
\* literal among the call results of the bound-method candidates in scan
\* order, having drawn nothing after it; it returns None when inference fails
\* before one is found, and when all sequences end and there is none.
C10_FirstIntegerResult ==
    last.op = "class_instance_as_index" =>
        LET attr == last.node
            hits == FirstHits(attr)
        IN  /\ last.res.tag # "raise"
            /\ Cardinality(hits) <= 1
            /\ \A h \in hits :
                  /\ last.res = RVal(attr.vals[h[1]].call.vals[h[2]])
                  /\ last.cands = h[1]
                  /\ last.seen = ResultsBefore(attr, h[1] - 1) + h[2]
            /\ hits = {} => last.res \in {RNone, RDiverges}
            /\ (hits = {} /\ AllEnd(attr)) => last.res = RNone
            /\ (hits = {} /\ attr.end = "error"
                  /\ \A i \in 1..Len(attr.vals) : ~Blocks(attr, i)) => last.res = RNone
            /\ (hits = {} /\ \E i \in 1..Len(attr.vals) :
                                /\ Blocks(attr, i)
                                /\ attr.vals[i].call.end = "error"
                                /\ \A k \in 1..(i - 1) : ~Blocks(attr, k))
                  => last.res = RNone

C10_Witness ==
    /\ last.op = "class_instance_as_index"
    /\ Len(last.node.vals) = 2
    /\ last.node.vals[1].kind # "BoundMethod"
    /\ last.res.tag = "value"
    /\ last.cands = 2
    /\ last.seen = 2
    /\ Len(last.node.vals[2].call.vals) = 2
    /\ ~IntegerLiteral(last.node.vals[2].call.vals[1])

=============================================================================
